---- MODULE Spec2Model ----
(***************************************************************************)
(* Verification model of the qt-capture supervisor and its three system    *)
(* crates: sys-single-instance (InstanceLock), sys-shutter-suppressor      *)
(* (AudioGuard) and sys-display-hotplug (DisplayWatcher / DisplayMonitor). *)
(***************************************************************************)
EXTENDS Integers, Sequences, FiniteSets, TLC

(***************************************************************************)
(* Bounds                                                                  *)
(***************************************************************************)
\* number of processes that use the lock file of one application name
MaxProcs == 3
\* the drop counter saturates here (acquire/drop rounds that are told apart)
MaxRounds == 2

\* lines the child writes in one session (including an undecodable one)
MaxLines == 3
\* lines the pipe from the child holds unread
MaxPipe == 1
\* connected outputs the display interface can report
MaxDisplays == 2
\* connected outputs in the specification of DisplayMonitor alone, where a
\* count can change twice within one check()
MaxOutputs == 3

Procs == 1..MaxProcs
NoProc == 0
\* an inode is free when no path links it and no descriptor has it open, so
\* MaxProcs open descriptors plus one linked file never exhaust the ids
Inodes == 1..(MaxProcs + 1)
NoIno == 0

VARIABLES
    lock_file,   \* inode linked at <lock_dir>/<app_name>.lock, NoIno if absent
    flock,       \* flock[i]: the process whose descriptor holds the exclusive
                 \* OS lock on inode i, NoProc if none
    fd,          \* fd[p]: inode of the File that p has open, NoIno if none
    pc,          \* pc[p]: position of p in try_acquire / the guard / drop
    drops,       \* history: number of guard drops started (saturating)
    stale,       \* history: inode of a lock file left on disk by a holder
                 \* that terminated without running drop, NoIno if none
    frpc,        \* position of the caller of force_release: "idle",
                 \* "called", "found" (path.exists() was true)
    fr_result    \* what the last force_release call returned: "ok", "err",
                 \* "none" while a call is running and before any

VARIABLES
    platform,    \* target_os of the build: "linux", "macos" or "windows"
    wayland,     \* XDG_SESSION_TYPE equals "wayland" (ignoring case)
    tools,       \* the audio control utilities `which` finds on PATH
    audio0,      \* history: the default output was muted when main started
    has_cmd,     \* the OnceLock cells HAS_WPCTL, HAS_PACTL: "unset"/"yes"/"no"
    audio,       \* the default output is muted
    muted_by_run,\* history: a mute command of this session was executed
    used,        \* history: the utility the last mute() and the last unmute()
                 \* of this process addressed, "none" before any
    surfaced     \* history: an error or panic of a command reached the
                 \* caller of mute() or unmute()

VARIABLES
    mpc,             \* position of the supervisor's main thread in main/run
    child,           \* the Qt child: "none", "running", "exited", "killed"
    reaped,          \* child.wait() has returned
    pending,         \* lines written by the child and not read yet
    rdlog,           \* history: what the read loop has read, in order
    capture_success, \* run's local of that name
    capture_path,    \* run's local of that name, NoPath for None
    exit_code,       \* run's local of that name, "unset" before the loop ends
    out,             \* lines printed on the supervisor's standard output
    status,          \* exit status main returned, "none" while running
    ev               \* history: calls of the main thread, in order

VARIABLES
    running,     \* the watcher's shared AtomicBool
    wpc,         \* position of the watcher thread
    last_count,  \* DisplayMonitor.last_count
    raw,         \* check()'s local `current` (the first probe) while check()
                 \* is in its settle delay, 0 when there is no such local
    elapsed,     \* ms since DisplayMonitor.last_check, capped at RateLimitMs
    probes,      \* history: get_monitor_count() calls made by the check()
                 \* that is running or has just returned, 0 once the loop
                 \* has moved on
    confirms,    \* history: check() calls that returned true (saturating)
    kills,       \* history: on_change() invocations (saturating)
    late,        \* history: check() calls begun after the running flag was
                 \* cleared (saturating)
    connected    \* outputs the platform's display interface reports now

frVars == <<frpc, fr_result>>
lockVars == <<lock_file, flock, fd, pc, drops, stale, frVars>>
envVars == <<platform, wayland, tools, audio0>>
audioVars == <<has_cmd, audio, muted_by_run, used, surfaced>>
childVars == <<child, reaped, pending>>
protoVars == <<rdlog, capture_success, capture_path>>
mainVars == <<mpc, exit_code, out, status, ev>>
histVars == <<probes, confirms, kills, late>>
watchVars == <<running, wpc, last_count, raw, elapsed, histVars>>
sessVars == <<envVars, audioVars, childVars, protoVars, mainVars, watchVars,
              connected>>
vars == <<lockVars, sessVars>>

Min(a, b) == IF a < b THEN a ELSE b

(***************************************************************************)
(* sys-single-instance: the file system and the OS lock                    *)
(***************************************************************************)
\* the inode a create(true) open allocates: any id that is neither linked
\* nor still open somewhere
FreeIno == CHOOSE i \in Inodes : i # lock_file /\ \A q \in Procs : fd[q] # i

\* closing a descriptor releases the OS lock it holds
CloseReleases(p) ==
    [i \in Inodes |-> IF flock[i] = p /\ fd[p] = i THEN NoProc ELSE flock[i]]

\* a guard is live from the successful return of try_acquire to its drop
Holds(p) == pc[p] = "held"
Holders == {p \in Procs : Holds(p)}

\* mutant of try_acquire_open: create_new(true), so that an existing lock
\* file alone makes the attempt fail
try_acquire_open_create_new(p) ==
    /\ pc[p] \in {"idle", "failed"}
    /\ IF lock_file = NoIno
          THEN /\ lock_file' = FreeIno
               /\ fd' = [fd EXCEPT ![p] = FreeIno]
               /\ pc' = [pc EXCEPT ![p] = "opened"]
          ELSE /\ lock_file' = lock_file
               /\ fd' = fd
               /\ pc' = [pc EXCEPT ![p] = "failed"]
    /\ UNCHANGED <<flock, drops, stale, frVars>>

\* OpenOptions::new().read(true).write(true).create(true).truncate(false)
\*     .open(&path): opens the linked file, creating it when it is absent
try_acquire_open(p) ==
    /\ pc[p] \in {"idle", "failed"}
    /\ IF lock_file = NoIno
          THEN /\ lock_file' = FreeIno
               /\ fd' = [fd EXCEPT ![p] = FreeIno]
          ELSE /\ lock_file' = lock_file
               /\ fd' = [fd EXCEPT ![p] = lock_file]
    /\ pc' = [pc EXCEPT ![p] = "opened"]
    /\ UNCHANGED <<flock, drops, stale, frVars>>

\* mutant of try_acquire_lock: lock_exclusive(), which waits for the holder
try_acquire_lock_blocking(p) ==
    /\ pc[p] = "opened"
    /\ flock[fd[p]] = NoProc
    /\ flock' = [flock EXCEPT ![fd[p]] = p]
    /\ pc' = [pc EXCEPT ![p] = "held"]
    /\ UNCHANGED <<lock_file, fd, drops, stale, frVars>>

\* file.try_lock_exclusive(): never waits; on Err the `?` returns and the
\* File is closed, on Ok the guard {file, path} is returned
try_acquire_lock(p) ==
    /\ pc[p] = "opened"
    /\ IF flock[fd[p]] = NoProc
          THEN /\ flock' = [flock EXCEPT ![fd[p]] = p]
               /\ pc' = [pc EXCEPT ![p] = "held"]
               /\ fd' = fd
          ELSE /\ flock' = flock
               /\ pc' = [pc EXCEPT ![p] = "failed"]
               /\ fd' = [fd EXCEPT ![p] = NoIno]
    /\ UNCHANGED <<lock_file, drops, stale, frVars>>

\* mutant of drop_unlock: the guard is leaked (no unlock, no remove, the
\* descriptor stays open) and the process carries on without it
drop_leaks_guard(p) ==
    /\ pc[p] = "held"
    /\ pc' = [pc EXCEPT ![p] = "idle"]
    /\ drops' = Min(drops + 1, MaxRounds)
    /\ UNCHANGED <<lock_file, flock, fd, stale, frVars>>

\* Drop, first statement: self.file.unlock()
drop_unlock(p) ==
    /\ pc[p] = "held"
    /\ flock' = [flock EXCEPT ![fd[p]] = NoProc]
    /\ pc' = [pc EXCEPT ![p] = "unlocked"]
    /\ drops' = Min(drops + 1, MaxRounds)
    /\ UNCHANGED <<lock_file, fd, stale, frVars>>

\* Drop, second statement: fs::remove_file(&self.path) unlinks whatever the
\* path names now; then the File field is dropped, which closes it
drop_remove(p) ==
    /\ pc[p] = "unlocked"
    /\ lock_file' = NoIno
    /\ stale' = IF stale = lock_file THEN NoIno ELSE stale
    /\ flock' = CloseReleases(p)
    /\ fd' = [fd EXCEPT ![p] = NoIno]
    /\ pc' = [pc EXCEPT ![p] = "idle"]
    /\ UNCHANGED <<drops, frVars>>

\* abnormal termination: no drop runs, the OS closes the descriptor (which
\* releases the lock) and the lock file stays on disk
crash(p) ==
    /\ pc[p] \in {"opened", "held", "unlocked"}
    /\ flock' = CloseReleases(p)
    /\ stale' = IF pc[p] = "held" /\ fd[p] = lock_file THEN fd[p] ELSE stale
    /\ fd' = [fd EXCEPT ![p] = NoIno]
    /\ pc' = [pc EXCEPT ![p] = "crashed"]
    /\ UNCHANGED <<lock_file, drops, frVars>>

\* InstanceLock::force_release(name) is called
force_release_call ==
    /\ frpc = "idle"
    /\ frpc' = "called"
    /\ fr_result' = "none"
    /\ UNCHANGED <<lock_file, flock, fd, pc, drops, stale>>

\* if path.exists() { .. }: without a file the call returns Ok(()) at once
force_release_exists ==
    /\ frpc = "called"
    /\ IF lock_file = NoIno
          THEN frpc' = "idle" /\ fr_result' = "ok"
          ELSE frpc' = "found" /\ fr_result' = fr_result
    /\ UNCHANGED <<lock_file, flock, fd, pc, drops, stale>>

\* fs::remove_file(&path)?: unlinks whatever the path names, whoever has it
\* open or locked; Err when the file has gone since exists()
force_release_remove ==
    /\ frpc = "found"
    /\ IF lock_file # NoIno
          THEN /\ lock_file' = NoIno
               /\ stale' = IF stale = lock_file THEN NoIno ELSE stale
               /\ fr_result' = "ok"
          ELSE /\ UNCHANGED <<lock_file, stale>>
               /\ fr_result' = "err"
    /\ frpc' = "idle"
    /\ UNCHANGED <<flock, fd, pc, drops>>

(***************************************************************************)
(* sys-shutter-suppressor: AudioGuard                                      *)
(***************************************************************************)
\* OnceLock::get_or_init(|| has_cmd(t)): the cached answer, computed from
\* PATH only when the cell is still unset
\* mutant of Has: has_cmd(t) is run at every call, nothing is cached
Has_uncached(c, t) == t \in tools

Has(c, t) == IF c[t] = "unset" THEN t \in tools ELSE c[t] = "yes"
Memo(c, t) == [c EXCEPT ![t] = IF Has(c, t) THEN "yes" ELSE "no"]

\* the utility mute_linux / unmute_linux run: wpctl, else pactl, else amixer
linux_tool(c) ==
    IF Has(c, "wpctl") THEN "wpctl"
    ELSE IF Has(c, "pactl") THEN "pactl" ELSE "amixer"

\* the cells after that selection (HAS_PACTL is only touched when wpctl is
\* not available)
linux_cells(c) ==
    IF Has(c, "wpctl") THEN Memo(c, "wpctl")
    ELSE Memo(Memo(c, "wpctl"), "pactl")

\* mute()/unmute() do something on macOS, and on Linux under Wayland
Applies == platform = "macos" \/ (platform = "linux" /\ wayland)

\* the command is executed (its failure is swallowed by `let _ =`)
CommandRuns ==
    IF platform = "macos" THEN TRUE ELSE linux_tool(has_cmd) \in tools

\* the utility the call addresses
tool_of == IF platform = "macos" THEN "osascript" ELSE linux_tool(has_cmd)
op_of(v) == IF v THEN "mute" ELSE "unmute"

\* mutant of set_mute: the io::Result of output() is unwrapped
set_mute_unwraps(v) ==
    /\ audio' = IF Applies /\ CommandRuns THEN v ELSE audio
    /\ has_cmd' = IF platform = "linux" /\ wayland
                     THEN linux_cells(has_cmd) ELSE has_cmd
    /\ used' = IF Applies THEN [used EXCEPT ![op_of(v)] = tool_of] ELSE used
    /\ surfaced' = (surfaced \/ (Applies /\ ~CommandRuns))

\* mute_macos / mute_linux and their unmute twins: `let _ = ....output()`
\* drops the Result, so a command that cannot be executed changes nothing
set_mute(v) ==
    /\ audio' = IF Applies /\ CommandRuns THEN v ELSE audio
    /\ has_cmd' = IF platform = "linux" /\ wayland
                     THEN linux_cells(has_cmd) ELSE has_cmd
    /\ used' = IF Applies THEN [used EXCEPT ![op_of(v)] = tool_of] ELSE used
    /\ surfaced' = surfaced

\* AudioGuard::mute()
mute ==
    /\ set_mute(TRUE)
    /\ muted_by_run' = (muted_by_run \/ (Applies /\ CommandRuns))

\* AudioGuard::unmute()
unmute ==
    /\ set_mute(FALSE)
    /\ UNCHANGED muted_by_run

\* a caller of the public AudioGuard API other than run (the crate's test)
call_mute ==
    /\ mute
    /\ UNCHANGED <<lockVars, envVars, childVars, protoVars, mainVars,
                   watchVars, connected>>

call_unmute ==
    /\ unmute
    /\ UNCHANGED <<lockVars, envVars, childVars, protoVars, mainVars,
                   watchVars, connected>>

\* the utilities has_cmd and Command::new look up on PATH
Utilities == {"wpctl", "pactl", "amixer"}

\* a utility is installed or removed while the process runs
path_changes(T) ==
    /\ T # tools
    /\ tools' = T
    /\ UNCHANGED <<lockVars, platform, wayland, audio0, audioVars, childVars,
                   protoVars, mainVars, watchVars, connected>>

(***************************************************************************)
(* qt-capture: lines of the child's standard output                        *)
(***************************************************************************)
\* a line is a sequence of symbols: a blank, a slash, a letter, or one of
\* the protocol words taken as a single symbol
WS == " "
REQ_MUTE == <<"REQ_MUTE">>
CAPTURE_SUCCESS == <<"CAPTURE_SUCCESS">>
CAPTURE_FAIL == <<"CAPTURE_FAIL">>
PathA == <<"/", "a">>
PathB == <<"/", "b">>
NoPath == <<>>

\* what reader.lines() yields for a line that is not valid UTF-8 (Err), and
\* the end of the stream (the iterator ends)
BadLine == <<"<invalid utf-8>">>
EndOfStream == <<"<end of stream>">>

\* the lines the session specification's child writes
CoreLines == {CAPTURE_SUCCESS, CAPTURE_FAIL, PathA, <<"x">>}

\* the lines the protocol specification's child writes
LineSet ==
    CoreLines \cup
    { REQ_MUTE, PathB,
      <<"/", "a", WS>>, <<WS, "/", "a">>,
      <<WS, "CAPTURE_FAIL">>, <<"CAPTURE_SUCCESS", WS>>,
      <<"capture_fail">>, <<"CAPTURE_FAIL", "x">> }

RECURSIVE trim_start(_)
trim_start(l) ==
    IF l # <<>> /\ Head(l) = WS THEN trim_start(Tail(l)) ELSE l

RECURSIVE trim_end(_)
trim_end(l) ==
    IF l # <<>> /\ l[Len(l)] = WS
       THEN trim_end(SubSeq(l, 1, Len(l) - 1)) ELSE l

\* str::trim
trim(l) == trim_end(trim_start(l))

\* str::starts_with('/')
starts_with_slash(l) == l # <<>> /\ Head(l) = "/"

(***************************************************************************)
(* qt-capture: the Qt child                                                *)
(***************************************************************************)
Sup == 1
Rival == Sup + 1
Dead == {"exited", "killed"}

\* the child writes one more line to its standard output (the pipe exists
\* until run drops the reader at the end of the IPC loop)
child_write ==
    /\ child = "running"
    /\ mpc \in {"watch", "read"}
    /\ pending < MaxPipe
    /\ Len(rdlog) + pending < MaxLines
    /\ pending' = pending + 1
    /\ UNCHANGED <<lockVars, envVars, audioVars, child, reaped, protoVars,
                   mainVars, watchVars, connected>>

\* the child exits (or is killed from outside), which closes its end
child_exit ==
    /\ child = "running"
    /\ child' = "exited"
    /\ UNCHANGED <<lockVars, envVars, audioVars, reaped, pending, protoVars,
                   mainVars, watchVars, connected>>

\* mutant of kill_process: the signal does not end the child
kill_process_spares == child

\* kill_process(pid): kill -9 ends a running child
kill_process == IF child = "running" THEN "killed" ELSE child

(***************************************************************************)
(* qt-capture: main and run                                                *)
(***************************************************************************)
\* run, step 1: InstanceLock::try_acquire("qt-capture")
run_try_acquire ==
    /\ mpc = "try_acquire"
    /\ \/ pc[Sup] = "idle" /\ try_acquire_open(Sup)
       \/ try_acquire_lock(Sup)
    /\ UNCHANGED sessVars

\* run, step 2: AudioGuard::mute(), once the guard is held
run_mute ==
    /\ mpc = "try_acquire"
    /\ pc[Sup] = "held"
    /\ mute
    /\ mpc' = "spawn"
    /\ ev' = Append(ev, "mute")
    /\ UNCHANGED <<lockVars, envVars, childVars, protoVars, exit_code, out,
                   status, watchVars, connected>>

\* run, step 3: spawn_qt_child(&args) finds the binary and spawns it
run_spawn ==
    /\ mpc = "spawn"
    /\ child' = "running"
    /\ mpc' = "watch"
    /\ ev' = Append(ev, "spawn")
    /\ UNCHANGED <<lockVars, envVars, audioVars, reaped, pending, protoVars,
                   exit_code, out, status, watchVars, connected>>

\* mutant of run_spawn_fails: the error is logged and run carries on
run_spawn_fails_ignored ==
    /\ mpc = "spawn"
    /\ mpc' = "watch"
    /\ ev' = Append(ev, "spawn failed")
    /\ UNCHANGED <<lockVars, envVars, audioVars, childVars, protoVars,
                   exit_code, out, status, watchVars, connected>>

\* run, step 3: find_qt_paths bails or cmd.spawn() fails; `?` returns the
\* error and the locals of run are dropped
run_spawn_fails ==
    /\ mpc = "spawn"
    /\ mpc' = "unwind"
    /\ ev' = Append(ev, "spawn failed")
    /\ UNCHANGED <<lockVars, envVars, audioVars, childVars, protoVars,
                   exit_code, out, status, watchVars, connected>>

\* run, step 4: DisplayWatcher::start(..) spawns the watcher thread
run_start_watcher ==
    /\ mpc = "watch"
    /\ running' = TRUE
    /\ wpc' = "new"
    /\ mpc' = "read"
    /\ ev' = Append(ev, "watch")
    /\ UNCHANGED <<lockVars, envVars, audioVars, childVars, protoVars,
                   exit_code, out, status, last_count, raw, elapsed,
                   histVars, connected>>

\* mutant of read_line: the path is recorded but the loop is not left
read_line_path_continues(l) ==
    /\ mpc = "read"
    /\ pending > 0
    /\ pending' = pending - 1
    /\ rdlog' = Append(rdlog, l)
    /\ LET trimmed == trim(l) IN
       IF trimmed = REQ_MUTE
          THEN UNCHANGED <<capture_success, capture_path, mpc>>
       ELSE IF trimmed = CAPTURE_SUCCESS
          THEN /\ capture_success' = TRUE
               /\ UNCHANGED <<capture_path, mpc>>
       ELSE IF trimmed = CAPTURE_FAIL
          THEN /\ capture_success' = FALSE
               /\ mpc' = "report"
               /\ UNCHANGED capture_path
       ELSE IF starts_with_slash(trimmed) /\ capture_success
          THEN /\ capture_path' = trimmed
               /\ UNCHANGED <<capture_success, mpc>>
       ELSE UNCHANGED <<capture_success, capture_path, mpc>>
    /\ UNCHANGED <<lockVars, envVars, audioVars, child, reaped, exit_code,
                   out, status, ev, watchVars, connected>>

\* mutant of read_line: CAPTURE_FAIL clears the flag but the loop goes on
read_line_fail_continues(l) ==
    /\ mpc = "read"
    /\ pending > 0
    /\ pending' = pending - 1
    /\ rdlog' = Append(rdlog, l)
    /\ LET trimmed == trim(l) IN
       IF trimmed = REQ_MUTE
          THEN UNCHANGED <<capture_success, capture_path, mpc>>
       ELSE IF trimmed = CAPTURE_SUCCESS
          THEN /\ capture_success' = TRUE
               /\ UNCHANGED <<capture_path, mpc>>
       ELSE IF trimmed = CAPTURE_FAIL
          THEN /\ capture_success' = FALSE
               /\ UNCHANGED <<capture_path, mpc>>
       ELSE IF starts_with_slash(trimmed) /\ capture_success
          THEN /\ capture_path' = trimmed
               /\ mpc' = "report"
               /\ UNCHANGED capture_success
       ELSE UNCHANGED <<capture_success, capture_path, mpc>>
    /\ UNCHANGED <<lockVars, envVars, audioVars, child, reaped, exit_code,
                   out, status, ev, watchVars, connected>>

\* mutant of read_line: a token is recognised by the first word of the line
read_line_prefix_match(l) ==
    /\ mpc = "read"
    /\ pending > 0
    /\ pending' = pending - 1
    /\ rdlog' = Append(rdlog, l)
    /\ LET trimmed == trim(l)
           word == IF trimmed = <<>> THEN <<>> ELSE <<Head(trimmed)>> IN
       IF word = REQ_MUTE
          THEN UNCHANGED <<capture_success, capture_path, mpc>>
       ELSE IF word = CAPTURE_SUCCESS
          THEN /\ capture_success' = TRUE
               /\ UNCHANGED <<capture_path, mpc>>
       ELSE IF word = CAPTURE_FAIL
          THEN /\ capture_success' = FALSE
               /\ mpc' = "report"
               /\ UNCHANGED capture_path
       ELSE IF starts_with_slash(trimmed) /\ capture_success
          THEN /\ capture_path' = trimmed
               /\ mpc' = "report"
               /\ UNCHANGED capture_success
       ELSE UNCHANGED <<capture_success, capture_path, mpc>>
    /\ UNCHANGED <<lockVars, envVars, audioVars, child, reaped, exit_code,
                   out, status, ev, watchVars, connected>>

\* mutant of read_line: a line that is not recognised withdraws a pending
\* success
read_line_unknown_clears_flag(l) ==
    /\ mpc = "read"
    /\ pending > 0
    /\ pending' = pending - 1
    /\ rdlog' = Append(rdlog, l)
    /\ LET trimmed == trim(l) IN
       IF trimmed = REQ_MUTE
          THEN UNCHANGED <<capture_success, capture_path, mpc>>
       ELSE IF trimmed = CAPTURE_SUCCESS
          THEN /\ capture_success' = TRUE
               /\ UNCHANGED <<capture_path, mpc>>
       ELSE IF trimmed = CAPTURE_FAIL
          THEN /\ capture_success' = FALSE
               /\ mpc' = "report"
               /\ UNCHANGED capture_path
       ELSE IF starts_with_slash(trimmed) /\ capture_success
          THEN /\ capture_path' = trimmed
               /\ mpc' = "report"
               /\ UNCHANGED capture_success
       ELSE /\ capture_success' = FALSE
            /\ UNCHANGED <<capture_path, mpc>>
    /\ UNCHANGED <<lockVars, envVars, audioVars, child, reaped, exit_code,
                   out, status, ev, watchVars, connected>>

\* run, step 5: one iteration of `for line in reader.lines()` on Ok(msg)
read_line(l) ==
    /\ mpc = "read"
    /\ pending > 0
    /\ pending' = pending - 1
    /\ rdlog' = Append(rdlog, l)
    /\ LET trimmed == trim(l) IN
       IF trimmed = REQ_MUTE
          THEN UNCHANGED <<capture_success, capture_path, mpc>>
       ELSE IF trimmed = CAPTURE_SUCCESS
          THEN /\ capture_success' = TRUE
               /\ UNCHANGED <<capture_path, mpc>>
       ELSE IF trimmed = CAPTURE_FAIL
          THEN /\ capture_success' = FALSE
               /\ mpc' = "report"
               /\ UNCHANGED capture_path
       ELSE IF starts_with_slash(trimmed) /\ capture_success
          THEN /\ capture_path' = trimmed
               /\ mpc' = "report"
               /\ UNCHANGED capture_success
       ELSE UNCHANGED <<capture_success, capture_path, mpc>>
    /\ UNCHANGED <<lockVars, envVars, audioVars, child, reaped, exit_code,
                   out, status, ev, watchVars, connected>>

\* run, step 5: the iteration on Err(_) (the line is not valid UTF-8)
read_error ==
    /\ mpc = "read"
    /\ pending > 0
    /\ pending' = pending - 1
    /\ rdlog' = Append(rdlog, BadLine)
    /\ mpc' = "report"
    /\ UNCHANGED <<lockVars, envVars, audioVars, child, reaped,
                   capture_success, capture_path, exit_code, out, status, ev,
                   watchVars, connected>>

\* mutant of read_eof: a killed child's end of the pipe stays open
read_eof_misses_kill ==
    /\ mpc = "read"
    /\ pending = 0
    /\ child = "exited"
    /\ rdlog' = Append(rdlog, EndOfStream)
    /\ mpc' = "report"
    /\ UNCHANGED <<lockVars, envVars, audioVars, childVars, capture_success,
                   capture_path, exit_code, out, status, ev, watchVars,
                   connected>>

\* run, step 5: the pipe is empty and the child's end is closed
read_eof ==
    /\ mpc = "read"
    /\ pending = 0
    /\ child \in Dead
    /\ rdlog' = Append(rdlog, EndOfStream)
    /\ mpc' = "report"
    /\ UNCHANGED <<lockVars, envVars, audioVars, childVars, capture_success,
                   capture_path, exit_code, out, status, ev, watchVars,
                   connected>>

\* the exit code run computes from capture_path
code_of(path) == IF path # NoPath THEN "0" ELSE "1"

\* mutant of run_report: the exit code follows capture_success
run_report_by_flag ==
    /\ mpc = "report"
    /\ out' = IF capture_path # NoPath THEN Append(out, capture_path) ELSE out
    /\ exit_code' = IF capture_success THEN "0" ELSE "1"
    /\ mpc' = "stop"
    /\ ev' = Append(ev, "report")
    /\ UNCHANGED <<lockVars, envVars, audioVars, childVars, protoVars, status,
                   watchVars, connected>>

\* run, lines 94-100: print the path and choose the exit code
run_report ==
    /\ mpc = "report"
    /\ out' = IF capture_path # NoPath THEN Append(out, capture_path) ELSE out
    /\ exit_code' = code_of(capture_path)
    /\ mpc' = "stop"
    /\ ev' = Append(ev, "report")
    /\ UNCHANGED <<lockVars, envVars, audioVars, childVars, protoVars, status,
                   watchVars, connected>>

\* mutant of run_stop_watcher: the watcher is dropped, not stopped: the flag
\* is cleared and the thread is not joined
run_stop_watcher_detaches ==
    /\ mpc = "stop"
    /\ running' = FALSE
    /\ mpc' = "wait"
    /\ ev' = Append(ev, "stop")
    /\ UNCHANGED <<lockVars, envVars, audioVars, childVars, protoVars,
                   exit_code, out, status, wpc, last_count, raw, elapsed,
                   histVars, connected>>

\* run, cleanup: watcher.stop() stores false in the flag ...
run_stop_watcher ==
    /\ mpc = "stop"
    /\ running' = FALSE
    /\ mpc' = "join"
    /\ ev' = Append(ev, "stop")
    /\ UNCHANGED <<lockVars, envVars, audioVars, childVars, protoVars,
                   exit_code, out, status, wpc, last_count, raw, elapsed,
                   histVars, connected>>

\* mutant of run_join_watcher: child.wait() is left out of the cleanup
run_join_skips_wait ==
    /\ mpc = "join"
    /\ wpc = "exited"
    /\ mpc' = "unmute"
    /\ ev' = Append(ev, "joined")
    /\ UNCHANGED <<lockVars, envVars, audioVars, childVars, protoVars,
                   exit_code, out, status, watchVars, connected>>

\* ... and joins the watcher thread
run_join_watcher ==
    /\ mpc = "join"
    /\ wpc = "exited"
    /\ mpc' = "wait"
    /\ ev' = Append(ev, "joined")
    /\ UNCHANGED <<lockVars, envVars, audioVars, childVars, protoVars,
                   exit_code, out, status, watchVars, connected>>

\* mutant of run_wait: try_wait(), which does not block
run_wait_nonblocking ==
    /\ mpc = "wait"
    /\ reaped' = (child \in Dead)
    /\ mpc' = "unmute"
    /\ ev' = Append(ev, "wait")
    /\ UNCHANGED <<lockVars, envVars, audioVars, child, pending, protoVars,
                   exit_code, out, status, watchVars, connected>>

\* mutant of run_wait: the child's exit status decides the exit code, a
\* killed child turning it into 1
run_wait_uses_child_status ==
    /\ mpc = "wait"
    /\ child \in Dead
    /\ reaped' = TRUE
    /\ mpc' = "unmute"
    /\ ev' = Append(ev, "wait")
    /\ exit_code' = IF child = "killed" THEN "1" ELSE exit_code
    /\ UNCHANGED <<lockVars, envVars, audioVars, child, pending, protoVars,
                   out, status, watchVars, connected>>

\* run, cleanup: child.wait() returns once the child has exited
run_wait ==
    /\ mpc = "wait"
    /\ child \in Dead
    /\ reaped' = TRUE
    /\ mpc' = "unmute"
    /\ ev' = Append(ev, "wait")
    /\ UNCHANGED <<lockVars, envVars, audioVars, child, pending, protoVars,
                   exit_code, out, status, watchVars, connected>>

\* run, cleanup: AudioGuard::unmute()
run_unmute ==
    /\ mpc = "unmute"
    /\ unmute
    /\ mpc' = "drop"
    /\ ev' = Append(ev, "unmute")
    /\ UNCHANGED <<lockVars, envVars, childVars, protoVars, exit_code, out,
                   status, watchVars, connected>>

\* mutant of run_drop_lock: run forgets the guard (mem::forget) instead of
\* dropping it
run_drop_lock_forgets ==
    /\ mpc \in {"drop", "unwind"}
    /\ drop_leaks_guard(Sup)
    /\ ev' = Append(ev, "drop")
    /\ UNCHANGED <<envVars, audioVars, childVars, protoVars, mpc, exit_code,
                   out, status, watchVars, connected>>

\* the end of run's scope, on Ok and on Err alike: _lock is dropped
run_drop_lock ==
    /\ mpc \in {"drop", "unwind"}
    /\ \/ drop_unlock(Sup) /\ ev' = Append(ev, "drop")
       \/ drop_remove(Sup) /\ ev' = ev
    /\ UNCHANGED <<envVars, audioVars, childVars, protoVars, mpc, exit_code,
                   out, status, watchVars, connected>>

\* mutant of main_ok: the Ok arm runs the safety unmute too
main_ok_unmutes_again ==
    /\ mpc = "drop"
    /\ pc[Sup] = "idle"
    /\ unmute
    /\ status' = exit_code
    /\ mpc' = "exited"
    /\ ev' = Append(ev, "unmute")
    /\ UNCHANGED <<lockVars, envVars, childVars, protoVars, exit_code, out,
                   watchVars, connected>>

\* main, Ok(code) => code
main_ok ==
    /\ mpc = "drop"
    /\ pc[Sup] = "idle"
    /\ status' = exit_code
    /\ mpc' = "exited"
    /\ UNCHANGED <<lockVars, envVars, audioVars, childVars, protoVars,
                   exit_code, out, ev, watchVars, connected>>

\* mutant of main_err: the error arm returns the success code
main_err_exit_zero ==
    /\ \/ mpc = "try_acquire" /\ pc[Sup] = "failed"
       \/ mpc = "unwind" /\ pc[Sup] = "idle"
    /\ unmute
    /\ status' = "0"
    /\ mpc' = "exited"
    /\ ev' = Append(ev, "unmute")
    /\ UNCHANGED <<lockVars, envVars, childVars, protoVars, exit_code, out,
                   watchVars, connected>>

\* mutant of main_err: the error arm has no safety unmute
main_err_no_unmute ==
    /\ \/ mpc = "try_acquire" /\ pc[Sup] = "failed"
       \/ mpc = "unwind" /\ pc[Sup] = "idle"
    /\ status' = "1"
    /\ mpc' = "exited"
    /\ UNCHANGED <<lockVars, envVars, audioVars, childVars, protoVars,
                   exit_code, out, ev, watchVars, connected>>

\* main, Err(e): the safety unmute and ExitCode::from(1); run returned the
\* error from try_acquire, or from spawn_qt_child after dropping _lock
main_err ==
    /\ \/ mpc = "try_acquire" /\ pc[Sup] = "failed"
       \/ mpc = "unwind" /\ pc[Sup] = "idle"
    /\ unmute
    /\ status' = "1"
    /\ mpc' = "exited"
    /\ ev' = Append(ev, "unmute")
    /\ UNCHANGED <<lockVars, envVars, childVars, protoVars, exit_code, out,
                   watchVars, connected>>

(***************************************************************************)
(* sys-display-hotplug: DisplayWatcher and DisplayMonitor                  *)
(***************************************************************************)
RateLimitMs == 250
SettleMs == 500
PollMs == 300

\* value of `connected` when the display interface gives no count at all:
\* /sys/class/drm cannot be read, the command cannot be run, or (Windows)
\* its output is not a number
Unreadable == -1

\* DisplayMonitor::get_monitor_count(), per target_os: Linux counts the
\* connected connectors and falls back to 1 when there is none; macOS
\* counts the "Resolution:" lines and Windows parses the number printed,
\* both falling back to 1 only when there is no output to use
get_monitor_count ==
    IF connected = Unreadable THEN 1
    ELSE IF platform = "linux"
       THEN (IF connected > 0 THEN connected ELSE 1)
       ELSE connected

\* time that passes while the thread sleeps
after(ms) == Min(elapsed + ms, RateLimitMs)

\* the thread starts: DisplayMonitor::new()
watcher_new ==
    /\ wpc = "new"
    /\ last_count' = get_monitor_count
    /\ elapsed' = 0
    /\ wpc' = "loop"
    /\ UNCHANGED <<lockVars, envVars, audioVars, childVars, protoVars,
                   mainVars, running, raw, histVars, connected>>

\* mutant of watcher_loop: the flag is not read, the loop always goes on
watcher_loop_ignores_flag ==
    /\ wpc = "loop"
    /\ wpc' = "check"
    /\ UNCHANGED <<lockVars, envVars, audioVars, childVars, protoVars,
                   mainVars, running, last_count, raw, elapsed, histVars,
                   connected>>

\* while running_clone.load(Relaxed)
watcher_loop ==
    /\ wpc = "loop"
    /\ wpc' = IF running THEN "check" ELSE "exited"
    /\ UNCHANGED <<lockVars, envVars, audioVars, childVars, protoVars,
                   mainVars, running, last_count, raw, elapsed, histVars,
                   connected>>

\* mutant of check_probe: no rate limit, every call probes
check_probe_unlimited ==
    /\ wpc = "check"
    /\ elapsed' = 0
    /\ probes' = 1
    /\ IF get_monitor_count # last_count
          THEN raw' = get_monitor_count /\ wpc' = "settle"
          ELSE raw' = 0 /\ wpc' = "sleep"
    /\ late' = IF running THEN late ELSE Min(late + 1, MaxRounds)
    /\ UNCHANGED <<lockVars, envVars, audioVars, childVars, protoVars,
                   mainVars, running, last_count, confirms, kills, connected>>

\* monitor.check(): the rate limit and the first probe
check_probe ==
    /\ wpc = "check"
    /\ IF elapsed < RateLimitMs
          THEN /\ wpc' = "sleep"
               /\ probes' = 0
               /\ UNCHANGED <<raw, elapsed>>
          ELSE /\ elapsed' = 0
               /\ probes' = 1
               /\ IF get_monitor_count # last_count
                     THEN raw' = get_monitor_count /\ wpc' = "settle"
                     ELSE raw' = 0 /\ wpc' = "sleep"
    /\ late' = IF running THEN late ELSE Min(late + 1, MaxRounds)
    /\ UNCHANGED <<lockVars, envVars, audioVars, childVars, protoVars,
                   mainVars, running, last_count, confirms, kills, connected>>

\* mutant of check_confirm: no second probe, the first one is taken as
\* confirmed after the delay
check_confirm_keeps_first ==
    /\ wpc = "settle"
    /\ elapsed' = after(SettleMs)
    /\ raw' = 0
    /\ probes' = 1
    /\ last_count' = raw
    /\ confirms' = Min(confirms + 1, MaxRounds)
    /\ wpc' = "act"
    /\ UNCHANGED <<lockVars, envVars, audioVars, childVars, protoVars,
                   mainVars, running, kills, late, connected>>

\* mutant of check_confirm: the change is reported but last_count is not
\* updated
check_confirm_forgets_count ==
    /\ wpc = "settle"
    /\ elapsed' = after(SettleMs)
    /\ raw' = 0
    /\ probes' = 2
    /\ last_count' = last_count
    /\ IF get_monitor_count # last_count
          THEN /\ confirms' = Min(confirms + 1, MaxRounds)
               /\ wpc' = "act"
          ELSE /\ confirms' = confirms
               /\ wpc' = "sleep"
    /\ UNCHANGED <<lockVars, envVars, audioVars, childVars, protoVars,
                   mainVars, running, kills, late, connected>>

\* monitor.check(): thread::sleep(500 ms) and the second probe
check_confirm ==
    /\ wpc = "settle"
    /\ elapsed' = after(SettleMs)
    /\ raw' = 0
    /\ probes' = 2
    /\ IF get_monitor_count # last_count
          THEN /\ last_count' = get_monitor_count
               /\ confirms' = Min(confirms + 1, MaxRounds)
               /\ wpc' = "act"
          ELSE /\ last_count' = last_count
               /\ confirms' = confirms
               /\ wpc' = "sleep"
    /\ UNCHANGED <<lockVars, envVars, audioVars, childVars, protoVars,
                   mainVars, running, kills, late, connected>>

\* mutant of watcher_on_change: no `break`, the loop goes on watching
watcher_on_change_keeps_watching ==
    /\ wpc = "act"
    /\ child' = kill_process
    /\ kills' = Min(kills + 1, MaxRounds)
    /\ probes' = 0
    /\ wpc' = "sleep"
    /\ UNCHANGED <<lockVars, envVars, audioVars, reaped, pending, protoVars,
                   mainVars, running, last_count, raw, elapsed, confirms,
                   late, connected>>

\* check() returned true: on_change() kills the child, then `break`
watcher_on_change ==
    /\ wpc = "act"
    /\ child' = kill_process
    /\ kills' = Min(kills + 1, MaxRounds)
    /\ probes' = 0
    /\ wpc' = "exited"
    /\ UNCHANGED <<lockVars, envVars, audioVars, reaped, pending, protoVars,
                   mainVars, running, last_count, raw, elapsed, confirms,
                   late, connected>>

\* check() returned false: thread::sleep(300 ms)
watcher_sleep ==
    /\ wpc = "sleep"
    /\ elapsed' = after(PollMs)
    /\ probes' = 0
    /\ wpc' = "loop"
    /\ UNCHANGED <<lockVars, envVars, audioVars, childVars, protoVars,
                   mainVars, running, last_count, raw, confirms, kills,
                   late, connected>>

\* a display is plugged or unplugged
hotplug(n) ==
    /\ n # connected
    /\ connected' = n
    /\ UNCHANGED <<lockVars, envVars, audioVars, childVars, protoVars,
                   mainVars, watchVars>>

\* a caller of the public DisplayMonitor API other than the watcher thread:
\* d ms after the previous call returned (false: "sleep", true: "act") or
\* after new(), it calls check()
Delays == {100, 200, 300}
call_check(d) ==
    /\ wpc \in {"loop", "sleep", "act"}
    /\ elapsed' = after(d)
    /\ probes' = 0
    /\ wpc' = "check"
    /\ UNCHANGED <<lockVars, envVars, audioVars, childVars, protoVars,
                   mainVars, running, last_count, raw, confirms, kills,
                   late, connected>>



(***************************************************************************)
(* Specifications                                                          *)
(***************************************************************************)
InitLock ==
    /\ lock_file = NoIno
    /\ flock = [i \in Inodes |-> NoProc]
    /\ fd = [p \in Procs |-> NoIno]
    /\ pc = [p \in Procs |-> "idle"]
    /\ drops = 0
    /\ stale = NoIno
    /\ frpc = "idle"
    /\ fr_result = "none"

InitSession ==
    /\ has_cmd = [t \in {"wpctl", "pactl"} |-> "unset"]
    /\ muted_by_run = FALSE
    /\ used = [o \in {"mute", "unmute"} |-> "none"]
    /\ surfaced = FALSE
    /\ mpc = "try_acquire"
    /\ child = "none"
    /\ reaped = FALSE
    /\ pending = 0
    /\ rdlog = <<>>
    /\ capture_success = FALSE
    /\ capture_path = NoPath
    /\ exit_code = "unset"
    /\ out = <<>>
    /\ status = "none"
    /\ ev = <<>>
    /\ running = FALSE
    /\ wpc = "none"
    /\ last_count = 1
    /\ raw = 0
    /\ elapsed = 0
    /\ probes = 0
    /\ confirms = 0
    /\ kills = 0
    /\ late = 0
    /\ connected = 1

\* the processes of the lock specifications only use InstanceLock
Init ==
    /\ InitLock
    /\ InitSession
    /\ platform = "linux"
    /\ wayland = TRUE
    /\ tools = {"wpctl"}
    /\ audio = FALSE
    /\ audio0 = FALSE

Next ==
    \/ \E p \in Procs : try_acquire_open(p) /\ UNCHANGED sessVars
    \/ \E p \in Procs : try_acquire_lock(p) /\ UNCHANGED sessVars
    \/ \E p \in Procs : drop_unlock(p) /\ UNCHANGED sessVars
    \/ \E p \in Procs : drop_remove(p) /\ UNCHANGED sessVars

Spec == Init /\ [][Next]_vars

NextCrash ==
    \/ Next
    \/ \E p \in Procs : crash(p) /\ UNCHANGED sessVars

SpecCrash == Init /\ [][NextCrash]_vars

\* the lock operations and force_release called at any time
NextForce ==
    \/ Next
    \/ force_release_call /\ UNCHANGED sessVars
    \/ force_release_exists /\ UNCHANGED sessVars
    \/ force_release_remove /\ UNCHANGED sessVars

SpecForce == Init /\ [][NextForce]_vars

\* the threads of one supervisor process
MainThread ==
    \/ run_try_acquire
    \/ run_mute
    \/ run_spawn
    \/ run_spawn_fails
    \/ run_start_watcher
    \/ read_error
    \/ read_eof
    \/ run_report
    \/ run_stop_watcher
    \/ run_join_watcher
    \/ run_wait
    \/ run_unmute
    \/ run_drop_lock
    \/ main_ok
    \/ main_err

\* the watcher thread while no display is plugged or unplugged
WatcherQuiet ==
    \/ watcher_new
    \/ watcher_loop
    \/ check_probe
    \/ watcher_sleep

WatcherThread ==
    \/ WatcherQuiet
    \/ check_confirm
    \/ watcher_on_change

\* the machine a session runs on
Environments ==
    { [os |-> "linux", wl |-> TRUE, path |-> {"wpctl"}],
      [os |-> "linux", wl |-> TRUE, path |-> {}],
      [os |-> "linux", wl |-> FALSE, path |-> {"pactl"}],
      [os |-> "macos", wl |-> FALSE, path |-> {}] }

\* the audio can be muted there: a mute command applies and can be executed
\* (where none can, the mute state never changes and only one is told apart)
Controllable(e) == e.os = "macos" \/ (e.wl /\ e.path # {})

InitEnv(e, a) ==
    /\ InitSession
    /\ platform = e.os
    /\ wayland = e.wl
    /\ tools = e.path
    /\ audio = a
    /\ audio0 = a

\* another instance holds the guard when the session starts
InitLockHeld ==
    /\ lock_file = 1
    /\ flock = [i \in Inodes |-> IF i = 1 THEN Rival ELSE NoProc]
    /\ fd = [p \in Procs |-> IF p = Rival THEN 1 ELSE NoIno]
    /\ pc = [p \in Procs |-> IF p = Rival THEN "held" ELSE "idle"]
    /\ drops = 0
    /\ stale = NoIno
    /\ frpc = "idle"
    /\ fr_result = "none"

\* the IPC protocol: every kind of line, a quiet display, no other instance
InitProto ==
    /\ InitLock
    /\ InitEnv([os |-> "linux", wl |-> TRUE, path |-> {"wpctl"}], FALSE)

NextProto ==
    \/ MainThread
    \/ \E l \in LineSet : read_line(l)
    \/ WatcherQuiet
    \/ child_write
    \/ child_exit

SpecProto == InitProto /\ [][NextProto]_vars

\* the whole session: every exit path on every kind of machine, the audio
\* muted or not when it starts, displays plugged and unplugged, the lock
\* free or held by another instance that may drop its guard at any time
InitSess ==
    /\ InitLock \/ InitLockHeld
    /\ \E e \in Environments, a \in BOOLEAN :
          /\ a => Controllable(e)
          /\ InitEnv(e, a)

NextSession ==
    \/ MainThread
    \/ \E l \in CoreLines : read_line(l)
    \/ WatcherThread
    \/ child_write
    \/ child_exit
    \/ \E n \in 1..MaxDisplays : hotplug(n)
    \/ drop_unlock(Rival) /\ UNCHANGED sessVars
    \/ drop_remove(Rival) /\ UNCHANGED sessVars

SpecSession == InitSess /\ [][NextSession]_vars

\* one session under fair scheduling: a thread of the supervisor that can
\* take a step eventually takes one; nothing is assumed of the child or of
\* the displays
InitLive == InitProto

MainStep == MainThread \/ \E l \in CoreLines : read_line(l)

NextLive ==
    \/ MainStep
    \/ WatcherThread
    \/ child_write
    \/ child_exit
    \/ \E n \in 1..MaxDisplays : hotplug(n)

SpecLive ==
    /\ InitLive
    /\ [][NextLive]_vars
    /\ WF_vars(MainStep)
    /\ WF_vars(WatcherThread)

\* the same, with a child that eventually exits, closing its output stream
SpecLiveChild == SpecLive /\ WF_vars(child_exit)

\* AudioGuard alone: mute() and unmute() called in any order on every kind
\* of machine, while utilities come and go on PATH
InitAudio ==
    /\ InitLock
    /\ InitSession
    /\ platform \in {"linux", "macos", "windows"}
    /\ wayland \in BOOLEAN
    /\ tools \in SUBSET Utilities
    /\ audio \in BOOLEAN
    /\ audio0 = audio

NextAudio ==
    \/ call_mute
    \/ call_unmute
    \/ \E T \in SUBSET Utilities : path_changes(T)

SpecAudio == InitAudio /\ [][NextAudio]_vars

\* DisplayMonitor alone: new(), then check() called at any pace while
\* displays are plugged and unplugged, the interface reporting any count
\* from none upwards or nothing at all
InitMonitor ==
    /\ InitLock
    /\ platform \in {"linux", "macos", "windows"}
    /\ wayland = FALSE
    /\ tools = {}
    /\ audio = FALSE
    /\ audio0 = FALSE
    /\ has_cmd = [t \in {"wpctl", "pactl"} |-> "unset"]
    /\ muted_by_run = FALSE
    /\ used = [o \in {"mute", "unmute"} |-> "none"]
    /\ surfaced = FALSE
    /\ mpc = "try_acquire"
    /\ child = "none"
    /\ reaped = FALSE
    /\ pending = 0
    /\ rdlog = <<>>
    /\ capture_success = FALSE
    /\ capture_path = NoPath
    /\ exit_code = "unset"
    /\ out = <<>>
    /\ status = "none"
    /\ ev = <<>>
    /\ running = TRUE
    /\ wpc = "new"
    /\ last_count = 1
    /\ raw = 0
    /\ elapsed = 0
    /\ probes = 0
    /\ confirms = 0
    /\ kills = 0
    /\ late = 0
    /\ connected \in Unreadable..MaxOutputs

NextMonitor ==
    \/ watcher_new
    \/ \E d \in Delays : call_check(d)
    \/ check_probe
    \/ check_confirm
    \/ \E n \in Unreadable..MaxOutputs : hotplug(n)

SpecMonitor == InitMonitor /\ [][NextMonitor]_vars

(***************************************************************************)
(* Claims about InstanceLock                                               *)
(***************************************************************************)
\* p's try_acquire returns in this step (Ok: "held", Err: "failed")
Returns(p) == pc[p] = "opened" /\ pc'[p] \in {"held", "failed"}

\* C1: under any interleaving of try_acquire and guard drop by several
\* processes on one application name, at most one process holds a live
\* guard at any instant.
C1_AtMostOneHolder == Cardinality(Holders) <= 1

C3_FreshAcquireSucceeds ==
    [][\A p \in Procs : (Returns(p) /\ Holders = {}) => pc'[p] = "held"]_vars

\* C3 witness: MaxRounds guards have been dropped and a fresh try_acquire
\* holds the lock again, everybody else being idle.
C3_Witness ==
    /\ drops = MaxRounds
    /\ \E p \in Procs :
          /\ Holds(p) /\ fd[p] = lock_file /\ flock[fd[p]] = p
          /\ \A q \in Procs \ {p} : pc[q] = "idle"

\* C4: try_acquire fails only while another process holds a live guard: a
\* lock file left on disk by a holder that terminated without drop never
\* makes a later try_acquire fail.
C4_StaleFileReacquirable ==
    [][\A p \in Procs :
          (pc'[p] = "failed" /\ pc[p] # "failed") => Holders \ {p} # {}]_vars

\* C4 witness: a process holds the guard on the very file a crashed holder
\* left behind.
C4_Witness ==
    /\ stale # NoIno
    /\ \E p \in Procs : Holds(p) /\ fd[p] = stale /\ lock_file = stale
    /\ \E q \in Procs : pc[q] = "crashed"

(***************************************************************************)
(* Claims about the IPC loop and the session's result                      *)
(***************************************************************************)
Last(q) == q[Len(q)]
Lines == 1..Len(rdlog)

\* the read loop has read CAPTURE_SUCCESS as its i-th line and later, as
\* its j-th, a line beginning with '/', with neither CAPTURE_FAIL nor the
\* end of the stream in between
PathAfterSuccess(i, j) ==
    /\ i < j
    /\ rdlog[i] = CAPTURE_SUCCESS
    /\ starts_with_slash(rdlog[j])
    /\ \A k \in (i + 1)..(j - 1) : rdlog[k] \notin {CAPTURE_FAIL, EndOfStream}

\* the session's result, with `path` the artifact: once the loop has ended
\* the exit code is zero and the path is the only line printed
SuccessWith(path) ==
    /\ capture_path = path
    /\ mpc # "read"
    /\ exit_code \in {"unset", "0"}
    /\ out \in {<<>>, <<path>>}
    /\ exit_code = "0" => out = <<path>>
    /\ status \in {"none", "0"}

\* the session's result is Failure: nothing is printed, the code is not zero
Failure ==
    /\ capture_path = NoPath
    /\ mpc # "read"
    /\ exit_code \in {"unset", "1"}
    /\ out = <<>>
    /\ status \in {"none", "1"}

\* C5 as stated: CAPTURE_SUCCESS followed later by a line beginning with
\* '/' gives Success carrying exactly that line, and the loop ends at it.
C5_SuccessCarriesLine ==
    \A i \in Lines, j \in Lines :
        PathAfterSuccess(i, j) => SuccessWith(rdlog[j]) /\ j = Len(rdlog)

\* C5 amended: CAPTURE_SUCCESS followed later by a line beginning with '/'
\* gives Success carrying that line with its surrounding whitespace trimmed,
\* and the loop ends at that line without reading further lines.
C5_SuccessCarriesTrimmedLine ==
    \A i \in Lines, j \in Lines :
        PathAfterSuccess(i, j) => SuccessWith(trim(rdlog[j])) /\ j = Len(rdlog)

\* C5 witness: a finished session that read CAPTURE_SUCCESS, another line,
\* then the path.
C5_Witness ==
    /\ status = "0"
    /\ \E i \in Lines, j \in Lines : PathAfterSuccess(i, j) /\ j > i + 1

\* C6: once the line CAPTURE_FAIL is read the loop has ended on it and the
\* result is Failure, whatever was read before it (CAPTURE_SUCCESS too) and
\* whatever the child writes after it.
C6_FailEndsLoop ==
    \A i \in Lines :
        rdlog[i] = CAPTURE_FAIL
            => i = Len(rdlog) /\ Failure /\ ~capture_success

\* C6 witness: a finished session that read CAPTURE_SUCCESS and then
\* CAPTURE_FAIL.
C6_Witness ==
    /\ status = "1"
    /\ \E i \in Lines, j \in Lines :
          i < j /\ rdlog[i] = CAPTURE_SUCCESS /\ rdlog[j] = CAPTURE_FAIL

\* C7: when the read loop ends on the end of the stream or on a read error
\* the result is Failure, also when CAPTURE_SUCCESS had been read.
C7_StreamEndIsFailure ==
    (rdlog # <<>> /\ Last(rdlog) \in {EndOfStream, BadLine}) => Failure

\* C7 witness: the watcher killed the child after CAPTURE_SUCCESS was read,
\* the loop met the end of the stream and the session returned 1.
C7_Witness ==
    /\ status = "1"
    /\ child = "killed"
    /\ capture_success
    /\ rdlog # <<>> /\ Last(rdlog) = EndOfStream

\* C8: a completed session returns zero exactly when its result is Success,
\* and has then printed the artifact path as its only line; with a Failure
\* or a fatal error it has printed nothing and returns non-zero.
C8_StatusMatchesResult ==
    status # "none" =>
        /\ status = "0" <=> capture_path # NoPath
        /\ capture_path # NoPath => out = <<capture_path>>
        /\ capture_path = NoPath => out = <<>> /\ status = "1"
        /\ child = "none" => status = "1" /\ out = <<>>

\* C8 witness: a session that returned zero after printing the path.
C8_Witness == status = "0" /\ out = <<PathA>> /\ reaped

(***************************************************************************)
(* Claims about the audio guard in a session                               *)
(***************************************************************************)
Events == 1..Len(ev)
Occurs(e) == \E i \in Events : ev[i] = e
\* every occurrence of b has an occurrence of a before it
Precedes(a, b) == \A j \in Events : ev[j] = b => \E i \in 1..(j - 1) : ev[i] = a

\* C9: when main has returned and a mute command was executed in the run,
\* an unmute was called after the mute and the audio is not muted.
C9_UnmutedOnEveryExit ==
    (status # "none" /\ muted_by_run) =>
        /\ ~audio
        /\ Precedes("mute", "unmute")
        /\ Occurs("unmute")

\* C9 witness: the spawn failed after an effective mute and main returned.
C9_Witness ==
    /\ status = "1"
    /\ muted_by_run
    /\ Occurs("spawn failed")
    /\ ~audio

\* C10: the child is spawned only after the mute call, and once a child was
\* spawned the unmute call comes only after child.wait() has returned.
C10_MuteSpawnWaitUnmute ==
    /\ Precedes("mute", "spawn")
    /\ child # "none" => Occurs("mute") /\ Occurs("spawn")
    /\ Occurs("spawn") => Precedes("wait", "unmute")
    /\ (Occurs("spawn") /\ Occurs("unmute")) => reaped /\ child \in Dead
    /\ (Occurs("spawn") /\ status # "none") => Occurs("unmute")

\* C10 witness: a session that spawned the child, waited for it, unmuted
\* and returned.
C10_Witness ==
    /\ status # "none"
    /\ \E i \in Events, j \in Events, k \in Events :
          i < j /\ j < k /\ ev[i] = "spawn" /\ ev[j] = "wait" /\ ev[k] = "unmute"

(***************************************************************************)
(* Claims about the session's exit paths                                   *)
(***************************************************************************)
\* the number of occurrences of e in the main thread's history
Count(e) == Cardinality({i \in Events : ev[i] = e})

\* a try_acquire started now by a new session succeeds: its open finds no
\* lock file, or one that no descriptor has locked
LockIsFree == lock_file = NoIno \/ flock[lock_file] = NoProc

\* C11: when main has returned from a session that acquired the instance
\* lock (it got as far as the mute call), the guard has been dropped: the
\* OS lock is released, the descriptor closed, and a new session can
\* acquire the lock.
C11_LockDroppedBeforeExit ==
    (status # "none" /\ Occurs("mute")) =>
        /\ Occurs("drop")
        /\ pc[Sup] = "idle"
        /\ fd[Sup] = NoIno
        /\ \A i \in Inodes : flock[i] # Sup
        /\ LockIsFree

\* C11 witness: the spawn failed in a session that held the lock; main has
\* returned, the guard is dropped and the lock file is gone.
C11_Witness ==
    /\ status = "1"
    /\ Occurs("spawn failed")
    /\ Occurs("drop")
    /\ pc[Sup] = "idle"
    /\ lock_file = NoIno

\* the session could not acquire the instance lock and main has returned
Contended == status # "none" /\ pc[Sup] = "failed"

\* C12: a session that cannot acquire the instance lock returns a non-zero
\* status and has done nothing else: no mute, no child, no watcher, and the
\* audio is in the state it was in when the session started.
C12_ContentionHasNoSideEffects ==
    Contended =>
        /\ status = "1"
        /\ ~Occurs("mute")
        /\ child = "none"
        /\ wpc = "none" /\ ~running
        /\ out = <<>>
        /\ audio = audio0

\* C13: when the binary is not found or the spawn fails, no child exists,
\* no watcher is started, the read loop does not run, nothing is printed,
\* and main returns 1 after an unmute call.
C13_SpawnFailureIsFatal ==
    Occurs("spawn failed") =>
        /\ child = "none"
        /\ wpc = "none" /\ ~running /\ ~Occurs("watch")
        /\ rdlog = <<>> /\ exit_code = "unset"
        /\ out = <<>>
        /\ status # "none" => status = "1" /\ Last(ev) = "unmute"

\* C13 witness: on macOS the spawn failed and main has returned 1 after the
\* unmute.
C13_Witness ==
    /\ platform = "macos"
    /\ status = "1"
    /\ Occurs("spawn failed")
    /\ Count("unmute") = 1
    /\ wpc = "none"

(***************************************************************************)
(* Claims about DisplayMonitor::check                                      *)
(***************************************************************************)
\* this step is the first part of a check() call, up to its return or to
\* the start of its settle delay
Probing == wpc = "check" /\ wpc' # "check"
\* this step is the end of the settle delay, the re-probe and the return
Confirming == wpc = "settle" /\ wpc' # "settle"
ReturnsFalse == wpc' = "sleep"
ReturnsTrue == wpc' = "act"

\* C14: a check() called less than 250 ms after the last check that was not
\* rate-limited returns false whatever the display count is, without a
\* probe and leaving the confirmed count and the last-check time unchanged.
C14_RateLimitedCheck ==
    [][(Probing /\ elapsed < RateLimitMs) =>
          /\ ReturnsFalse
          /\ probes' = 0
          /\ last_count' = last_count
          /\ elapsed' = elapsed]_vars

\* C14 witness: after a check that confirmed a change, two calls 100 ms
\* apart were both refused by the rate limit though the count differs from
\* the confirmed one.
C14_Witness ==
    /\ confirms >= 1
    /\ wpc = "sleep"
    /\ probes = 0
    /\ elapsed = 200
    /\ get_monitor_count # last_count

\* C15: when the first probe of a check() differed from the confirmed count
\* and the re-probe after the settle delay equals the confirmed count,
\* check() returns false and the confirmed count is unchanged.
C15_TransientGlitchIgnored ==
    [][(Confirming /\ raw # last_count /\ get_monitor_count = last_count) =>
          /\ ReturnsFalse
          /\ last_count' = last_count
          /\ confirms' = confirms]_vars

\* C15 witness: a check() has returned false after two probes, the count
\* being back at the confirmed one.
C15_Witness ==
    /\ wpc = "sleep"
    /\ probes = 2
    /\ get_monitor_count = last_count

\* C16: a check() that is not rate-limited and finds a count different from
\* the confirmed one goes on to the re-probe; when the count is (still) a
\* new value at the re-probe, check() returns true and the confirmed count
\* becomes that value; every check() that then finds the count at the
\* confirmed value returns false and leaves it.
C16_SustainedChangeReportedOnce ==
    /\ [][(Probing /\ elapsed >= RateLimitMs
              /\ get_monitor_count # last_count) =>
             wpc' = "settle" /\ raw' = get_monitor_count]_vars
    /\ [][(Confirming /\ get_monitor_count # last_count) =>
             ReturnsTrue /\ last_count' = get_monitor_count]_vars
    /\ [][(Probing /\ get_monitor_count = last_count) =>
             ReturnsFalse /\ last_count' = last_count
                          /\ confirms' = confirms]_vars

\* C16 witness: one check() has returned true, and a later one that was not
\* rate-limited has probed the same count and returned false.
C16_Witness ==
    /\ confirms = 1
    /\ wpc = "sleep"
    /\ probes = 1
    /\ get_monitor_count = last_count
    /\ last_count = MaxOutputs

\* C17: the confirmed count changes only at the end of a check() whose
\* first probe differed from it and whose re-probe equals that first probe
\* (new() excepted, which sets the count at construction).
C17_TwoStageConfirmation ==
    [][(last_count' # last_count /\ wpc # "new") =>
          /\ Confirming
          /\ raw # last_count
          /\ get_monitor_count = raw
          /\ last_count' = raw]_vars

(***************************************************************************)
(* Claims about the watcher thread in a session                            *)
(***************************************************************************)
\* C18: in one session check() returns true at most once and on_change is
\* invoked at most once; from its invocation on the watcher thread has
\* exited, so it makes no further check().
C18_WatcherActsOnce ==
    /\ confirms <= 1
    /\ kills <= 1
    /\ kills <= confirms
    /\ confirms = 1 => wpc \in {"act", "exited"}
    /\ kills = 1 => wpc = "exited" /\ probes = 0

\* C18 witness: the watcher has killed the child and exited on its own (the
\* flag is still set), and a display change after that is not acted upon.
C18_Witness ==
    /\ kills = 1
    /\ child = "killed"
    /\ wpc = "exited"
    /\ running
    /\ get_monitor_count # last_count

\* C19: under every interleaving of the read loop and the watcher, run
\* chooses its result once and stops the watcher, waits for the child,
\* unmutes and drops the lock guard at most once each; when main has
\* returned from a session that spawned the child, each was done exactly
\* once and the status is the one result chosen.
C19_OneOutcomeOneCleanup ==
    /\ \A e \in {"report", "stop", "joined", "wait", "unmute", "drop"} :
          Count(e) <= 1
    /\ Len(out) <= 1
    /\ status # "none" <=> mpc = "exited"
    /\ (status # "none" /\ Occurs("spawn")) =>
          /\ \A e \in {"report", "stop", "joined", "wait", "unmute", "drop"} :
                Count(e) = 1
          /\ reaped
          /\ exit_code = code_of(capture_path)
          /\ status = exit_code

\* C19 witness: both events happened, the read loop ending first: the path
\* was recorded, then the watcher killed the child during the teardown, and
\* main returned 0 after one wait, one unmute and one drop.
C19_Witness ==
    /\ status = "0"
    /\ kills = 1
    /\ child = "killed"
    /\ Count("wait") = 1 /\ Count("unmute") = 1 /\ Count("drop") = 1

\* C20: the teardown does not wait for the watcher thread: once stop() has
\* cleared the flag, run can go on to child.wait() wherever the watcher
\* thread is (asleep, in its settle delay, about to kill).
C20_TeardownNeverWaits ==
    mpc = "join" => ENABLED run_join_watcher

(***************************************************************************)
(* Claims about AudioGuard alone                                           *)
(***************************************************************************)
\* C22: mute() and unmute() always return to their caller and no error or
\* panic of a command reaches the caller, on every platform and whichever
\* utilities are on PATH, none included.
C22_MuteUnmuteNeverFail ==
    /\ ~surfaced
    /\ ENABLED call_mute
    /\ ENABLED call_unmute

\* C22 witness: on Linux under Wayland with no utility on PATH, mute() and
\* then unmute() have run amixer, which cannot be executed, and returned.
C22_Witness ==
    /\ platform = "linux" /\ wayland
    /\ tools = {}
    /\ used = [o \in {"mute", "unmute"} |-> "amixer"]
    /\ ~surfaced
    /\ audio = audio0

\* C28: in one process the last mute and the last unmute addressed the same
\* utility, the first of wpctl, pactl whose cached availability is yes,
\* else amixer; an availability is computed from PATH when first needed and
\* never changes afterwards, whatever happens to PATH.
C28_SameUtility ==
    /\ [](("none" \notin {used["mute"], used["unmute"]})
              => used["mute"] = used["unmute"])
    /\ [](\A o \in {"mute", "unmute"} :
             /\ used[o] = "wpctl" => has_cmd["wpctl"] = "yes"
             /\ used[o] = "pactl" =>
                   has_cmd["wpctl"] = "no" /\ has_cmd["pactl"] = "yes"
             /\ used[o] = "amixer" =>
                   has_cmd["wpctl"] = "no" /\ has_cmd["pactl"] = "no")
    /\ [][\A t \in {"wpctl", "pactl"} :
             IF has_cmd[t] = "unset"
                THEN has_cmd'[t] \in
                        {"unset", IF t \in tools THEN "yes" ELSE "no"}
                ELSE has_cmd'[t] = has_cmd[t]]_vars

\* C28 witness: wpctl was on PATH at the mute and only pactl is there now;
\* the unmute addressed wpctl all the same.
C28_Witness ==
    /\ used = [o \in {"mute", "unmute"} |-> "wpctl"]
    /\ tools = {"pactl"}
    /\ has_cmd["pactl"] = "unset"

(***************************************************************************)
(* Claims about the child's lifetime                                       *)
(***************************************************************************)
\* run has returned (its locals are being dropped, or main has returned)
RunReturned == mpc \in {"drop", "exited"}

\* C21: when a child was spawned and run has returned, child.wait() has
\* returned before: the child has terminated and has been reaped.
C21_ChildReapedBeforeReturn ==
    (Occurs("spawn") /\ RunReturned) =>
        /\ Occurs("wait")
        /\ reaped
        /\ child \in Dead

\* C21 witness: the child exited on its own without a result, run waited
\* for it and main returned 1.
C21_Witness ==
    /\ status = "1"
    /\ child = "exited"
    /\ reaped
    /\ kills = 0
    /\ Last(ev) = "drop"

(***************************************************************************)
(* Claims about the display-count probe                                    *)
(***************************************************************************)
\* C23: get_monitor_count() reports at least one display, and exactly one
\* whenever the interface gives no count or counts no display.
C23_ProbeAtLeastOne ==
    /\ get_monitor_count >= 1
    /\ connected <= 0 => get_monitor_count = 1

(***************************************************************************)
(* Claims about how the read loop classifies a line                        *)
(***************************************************************************)
\* this step is an iteration of the read loop on a decoded line, TheLine
ReadsLine ==
    /\ Len(rdlog') = Len(rdlog) + 1
    /\ Last(rdlog') \notin {BadLine, EndOfStream}
TheLine == Last(rdlog')

\* the iteration treated its line as CAPTURE_FAIL (the loop ended without a
\* path), as CAPTURE_SUCCESS (success became pending), as the path
AsFail == mpc' = "report" /\ capture_path' = NoPath
AsSuccess == capture_success' /\ ~capture_success
AsPath == capture_path' # NoPath

Tokens == {REQ_MUTE, CAPTURE_SUCCESS, CAPTURE_FAIL}

\* C24 as stated: only the line that is exactly CAPTURE_FAIL or exactly
\* CAPTURE_SUCCESS is treated as that token, and only a line that itself
\* begins with '/' is taken as the path.
C24_ExactTokens ==
    [][ReadsLine =>
          /\ AsFail => TheLine = CAPTURE_FAIL
          /\ AsSuccess => TheLine = CAPTURE_SUCCESS
          /\ AsPath => starts_with_slash(TheLine)]_vars

\* C24 amended: tokens are matched by case-sensitive exact equality with
\* the line after its leading and trailing whitespace is trimmed: a line
\* that differs from a token in case or by any other extra character is
\* not treated as that token, and a line counts as the path only if the
\* trimmed line begins with '/' (and success is pending).
C24_TrimmedExactTokens ==
    [][ReadsLine =>
          /\ AsFail <=> trim(TheLine) = CAPTURE_FAIL
          /\ AsSuccess => trim(TheLine) = CAPTURE_SUCCESS
          /\ trim(TheLine) = CAPTURE_SUCCESS => capture_success'
          /\ AsPath <=> (starts_with_slash(trim(TheLine)) /\ capture_success)
          /\ AsPath => capture_path' = trim(TheLine)]_vars

\* C24 witness: a line differing from CAPTURE_FAIL in case was read and the
\* loop went on; it ended with Failure on CAPTURE_FAIL behind a blank.
C24_Witness ==
    /\ status = "1"
    /\ \E i \in Lines :
          /\ i < Len(rdlog)
          /\ rdlog[i] = <<"capture_fail">>
    /\ Last(rdlog) = <<WS, "CAPTURE_FAIL">>

\* a line that is neither a token nor a path, once trimmed
Unrecognized(t) == t \notin Tokens /\ ~starts_with_slash(t)

\* C25: an iteration on a REQ_MUTE line, on a line beginning with '/' while
\* success is not pending, or on an unrecognized line leaves the flag, the
\* path and the audio as they were and the loop goes on; a CAPTURE_SUCCESS
\* read while success is pending leaves it pending.
C25_NoOpLines ==
    [][ReadsLine =>
          /\ (\/ trim(TheLine) = REQ_MUTE
              \/ starts_with_slash(trim(TheLine)) /\ ~capture_success
              \/ Unrecognized(trim(TheLine)))
                => /\ capture_success' = capture_success
                   /\ capture_path' = capture_path
                   /\ audioVars' = audioVars
                   /\ mpc' = "read"
          /\ (trim(TheLine) = CAPTURE_SUCCESS /\ capture_success)
                => /\ capture_success'
                   /\ capture_path' = capture_path
                   /\ audioVars' = audioVars
                   /\ mpc' = "read"]_vars

\* C25 witness: a path line came before any success, then CAPTURE_SUCCESS,
\* then REQ_MUTE: success is pending, no path is recorded, the audio is
\* still muted and the loop is reading.
C25_Witness ==
    /\ rdlog = <<PathA, CAPTURE_SUCCESS, REQ_MUTE>>
    /\ capture_success
    /\ capture_path = NoPath
    /\ audio
    /\ mpc = "read"

(***************************************************************************)
(* Claims about InstanceLock::force_release                                *)
(***************************************************************************)
\* this step belongs to a force_release call; the call returns in it
FrStep == frpc' # frpc
FrReturns == frpc # "idle" /\ frpc' = "idle"

\* C29: no step of force_release touches the OS lock, a descriptor or a
\* guard, so a live holder stays a holder; a call that returns after finding
\* the lock file unlinks it whether or not it is locked; and every call that
\* returns while a guard is held, or while no lock file exists, returns Ok.
C29_ForceReleaseSucceeds ==
    /\ [][FrStep => /\ flock' = flock
                    /\ fd' = fd
                    /\ pc' = pc
                    /\ Holders' = Holders]_vars
    /\ [][(FrReturns /\ lock_file # NoIno) => lock_file' = NoIno]_vars
    /\ [][(FrReturns /\ (Holders # {} \/ lock_file = NoIno)) =>
             fr_result' = "ok"]_vars

(***************************************************************************)
(* Claims about the session under fair scheduling                          *)
(***************************************************************************)
\* DisplayWatcher::stop() has cleared the flag of a started watcher
Stopped == wpc # "none" /\ ~running

\* C27: once the flag is cleared the loop starts no check(): the only call
\* that can begin after the clear is the one whose flag read came before it,
\* so at most one does; and under fair scheduling the join of stop() always
\* returns, with or without a topology change.
C27_StopEndsWatcher ==
    /\ [](late <= 1)
    /\ [][(Stopped /\ wpc # "check") => wpc' # "check"]_vars
    /\ (mpc = "join") ~> (wpc = "exited" /\ Occurs("joined"))

\* C27 witness: stop() returned after the thread ran one more check() that
\* began after the flag was cleared, and no change was ever confirmed.
C27_Witness ==
    /\ Occurs("joined")
    /\ wpc = "exited"
    /\ late = 1
    /\ confirms = 0
    /\ kills = 0

\* the read loop is blocked on a silent running child with no path
\* recorded, and the display count differs from the monitor's baseline
Changed ==
    /\ mpc = "read"
    /\ child = "running"
    /\ pending = 0
    /\ capture_path = NoPath
    /\ running
    /\ wpc \notin {"none", "new"}
    /\ get_monitor_count # last_count

\* the count is back at the baseline before any change was confirmed
Reverted == get_monitor_count = last_count /\ confirms = 0

\* the child ended the wait itself: it wrote a line or exited
ChildActed == pending > 0 \/ child = "exited"

\* the watcher killed the child, the read loop ended on end of stream and
\* main returned Failure
KilledDone ==
    /\ kills = 1
    /\ child = "killed"
    /\ rdlog # <<>>
    /\ Last(rdlog) = EndOfStream
    /\ Failure
    /\ status = "1"

\* C26: from a state where the read loop is blocked on a running child with
\* no path recorded and the display count differs from the baseline, under
\* fair scheduling the session ends with the child killed by the watcher,
\* end of stream read and Failure returned, unless the count goes back
\* before it is confirmed or the child writes or exits first; the threads
\* share nothing on the way: no watcher step changes a variable of the main
\* thread or of the protocol, its only effect outside the watcher is the
\* kill, and no step of the reading main thread changes the watcher.
C26_HotplugKillConverges ==
    /\ Changed ~> (KilledDone \/ Reverted \/ ChildActed)
    /\ [][WatcherThread =>
            /\ UNCHANGED <<mainVars, protoVars, reaped, pending, running>>
            /\ child' # child => child' = "killed" /\ kills' = kills + 1]_vars
    /\ [][(MainStep /\ mpc = "read") => UNCHANGED watchVars]_vars

\* C26 witness: a session in which the child wrote nothing: the watcher
\* confirmed a display change and killed it, the read loop read end of
\* stream as its only item, and main returned 1 after the cleanup.
C26_Witness ==
    /\ KilledDone
    /\ rdlog = <<EndOfStream>>
    /\ confirms = 1
    /\ reaped
    /\ Occurs("joined")

\* the session is over: the read loop ended and the result was chosen, the
\* watcher thread was stopped and has exited, the child was reaped, the
\* audio was unmuted, the lock guard was dropped and main returned
Done ==
    /\ mpc = "exited"
    /\ status # "none"
    /\ Occurs("report")
    /\ ~running
    /\ wpc = "exited"
    /\ Occurs("joined")
    /\ child \in Dead
    /\ reaped
    /\ Occurs("unmute")
    /\ ~audio
    /\ Count("drop") = 1
    /\ pc[Sup] = "idle"

\* C30: with a child that eventually exits, every session that spawned the
\* child reaches Done under fair scheduling; and the two threads never wait
\* for each other: while main has not returned, the main thread or the
\* watcher thread can take a step, or the main thread is waiting for the
\* running child, and the watcher thread, once started, can always take a
\* step until it has exited.
C30_SessionTerminates ==
    /\ Occurs("spawn") ~> Done
    /\ [](mpc # "exited" =>
            \/ ENABLED MainStep
            \/ ENABLED WatcherThread
            \/ child = "running" /\ mpc \in {"read", "wait"})
    /\ [](wpc \notin {"none", "exited"} => ENABLED WatcherThread)

\* C30 witness: a session is over whose child delivered the path and exited
\* by itself, the watcher having been stopped by the main thread.
C30_Witness ==
    /\ Done
    /\ child = "exited"
    /\ kills = 0
    /\ out # <<>>
    /\ status = "0"

(***************************************************************************)
(* Claims about the order of the cleanup and about other instances         *)
(***************************************************************************)
\* C31: in a session that acquired the lock and called mute, the lock guard
\* is dropped only after the unmute was called: every drop of the guard in
\* the main thread's history has an unmute before it.
C31_UnmuteWhileLocked ==
    Occurs("mute") => Precedes("unmute", "drop")

\* another instance holds the instance lock and had muted the audio when
\* this session started: its session is between its mute and its cleanup
RivalMuted == pc[Rival] = "held" /\ audio0

\* C32: while another instance holds the lock in a session that muted the
\* audio, the audio stays muted whatever this instance does, in particular
\* when it fails to acquire the lock.
C32_HolderStaysMuted ==
    RivalMuted => audio

\* C33: the watcher thread has exited before child.wait() returns: while
\* the thread can still reach its kill the child is not reaped, and once the
\* child is reaped the thread has exited, so every kill it issued came
\* before; the join comes before the wait in the main thread's history.
C33_NoKillAfterReap ==
    /\ wpc \notin {"none", "exited"} => ~reaped /\ ~Occurs("wait")
    /\ reaped => wpc = "exited" /\ Occurs("joined")
    /\ Precedes("joined", "wait")

\* C33 witness: the watcher killed the child during the teardown, in a
\* check() it began after stop() had cleared the flag, and the child was
\* reaped after that.
C33_Witness ==
    /\ kills = 1
    /\ late = 1
    /\ child = "killed"
    /\ reaped

\* C34: once a path is recorded the result is Success with that path and
\* stays so: the path never changes, the exit code, once chosen, is zero and
\* the line printed is that path, and neither changes afterwards, whether
\* the watcher kills the child during the teardown or the child exits by
\* itself.
C34_PathFixesSuccess ==
    /\ [](capture_path # NoPath => SuccessWith(capture_path))
    /\ [][capture_path # NoPath =>
            /\ capture_path' = capture_path
            /\ exit_code # "unset" => exit_code' = exit_code /\ out' = out
            /\ status # "none" => status' = status]_vars

\* C34 witness: the path was recorded and printed, then the watcher killed
\* the child during the teardown (in a check() begun after stop() cleared
\* the flag), and main returned zero.
C34_Witness ==
    /\ status = "0"
    /\ capture_path # NoPath
    /\ out = <<capture_path>>
    /\ child = "killed"
    /\ kills = 1
    /\ late = 1

\* C35: when a session that called mute has completed on a platform where
\* muting applies, the audio is in the mute state the session found.
C35_MuteStateRestored ==
    (status # "none" /\ Occurs("mute") /\ Applies) => audio = audio0

\* C36: while no guard has been dropped, so that the first holder's guard
\* is alive, at most one process holds a guard, force_release or not.
C36_ForceReleaseKeepsExclusion ==
    drops = 0 => Cardinality(Holders) <= 1

====
